---- MODULE Spec2Model ----
(***************************************************************************)
(* Model of liquid_pressure_chess.py: the game clock, the liquid-pressure  *)
(* record and the two colour branches of the main game loop.               *)
(*                                                                         *)
(* Units.  Times are integers in milliseconds.  flow_momentum is in        *)
(* hundredths (0.06 is 6, 1.0 is 100).  pressure is in millionths (0.4 is  *)
(* 400000) and the time-pressure factor in thousandths (0.5 is 500).       *)
(* Products and quotients the code takes in floating point are taken here  *)
(* in integer arithmetic, rounded down.                                    *)
(*                                                                         *)
(* The rules library (python-chess) and the engine (Stockfish) are         *)
(* outside the repository.  A position is kept as the number of plies      *)
(* pushed, its legal-move count and its game-over kind; what the rules     *)
(* library answers after a push is a nondeterministic choice among         *)
(* Positions.  Which candidate the move selector returns is not kept: the  *)
(* loop only tests whether it returned a move at all.                      *)
(***************************************************************************)
EXTENDS Integers, Sequences, FiniteSets, TLC

VARIABLES
    player_is_white,          \* line 15
    board,                    \* line 18: [plies, legal_moves, over]
    sf,                       \* line 10: the engine's mirrored position, [plies]
    engine_time_remaining,    \* line 22
    opponent_time_remaining,  \* line 23
    last_move_time,           \* line 24
    now,                      \* the wall clock, datetime.now()
    LIQUID_STYLE,             \* lines 27-32: [pressure, flow_momentum, phase]
    thinking_time,            \* the last delay computed at lines 309 / 375
    opp_move,                 \* the last text read at lines 327 / 353, stripped
    move_legal,               \* the last answer of `move_obj in board.legal_moves`
    reads,                    \* inputs read at the current opponent prompt
    outcome,                  \* which game-over message lines 393-409 printed
    pc                        \* position of the program

vars == <<player_is_white, board, sf, engine_time_remaining,
          opponent_time_remaining, last_move_time, now, LIQUID_STYLE,
          thinking_time, opp_move, move_legal, reads, outcome, pc>>

\* What the claims call the game state: everything but the wall clock, the
\* input buffer and the program position.
game == <<board, sf, engine_time_remaining, opponent_time_remaining,
          last_move_time, LIQUID_STYLE>>

-----------------------------------------------------------------------------
(* Bounds of the model *)

\* Plies after which no further move is made.
MaxPlies == 17

\* Inputs read at one opponent prompt before the model stops reading.
MaxReads == 1

\* Fractions (per mille) of the interval a random.uniform draw can land on.
RandFracs == {0, 500, 1000}

\* Milliseconds the opponent can take to type one input.
InputDelays == {0, 300000}

\* Milliseconds move selection takes on top of the thinking delay.
Overheads == {0}

-----------------------------------------------------------------------------
(* Program constants *)

GAME_DURATION == 600000

expected_moves == 40

Min(a, b) == IF a < b THEN a ELSE b

Max(a, b) == IF a > b THEN a ELSE b

-----------------------------------------------------------------------------
(* Input text: sequences of one-character strings *)

Quit == <<"q", "u", "i", "t">>

\* The raw lines the opponent can type.
InputTexts == { Quit,
                <<" ", "Q", "u", "i", "t">>,
                <<"e", "2", "e", "4">>,
                <<"E", "2", "E", "4">>,
                <<"0", "0", "0", "0">> }

Files == {"a", "b", "c", "d", "e", "f", "g", "h"}

Ranks == {"1", "2", "3", "4", "5", "6", "7", "8"}

UpperToLower == [c \in {"Q", "U", "I", "T", "E"} |->
                   CASE c = "Q" -> "q" [] c = "U" -> "u" [] c = "I" -> "i"
                     [] c = "T" -> "t" [] c = "E" -> "e"]

\* str.lower()
lower(s) == [i \in 1..Len(s) |->
               IF s[i] \in DOMAIN UpperToLower THEN UpperToLower[s[i]] ELSE s[i]]

RECURSIVE lstrip(_)
lstrip(s) == IF s # <<>> /\ Head(s) = " " THEN lstrip(Tail(s)) ELSE s

RECURSIVE rstrip(_)
rstrip(s) == IF s # <<>> /\ s[Len(s)] = " "
             THEN rstrip(SubSeq(s, 1, Len(s) - 1)) ELSE s

\* str.strip()
strip(s) == rstrip(lstrip(s))

\* opp_move.lower() == "quit", lines 328 / 354, without the case folding
is_quit_exact(text) == text = Quit

\* opp_move.lower() == "quit", lines 328 / 354
is_quit(text) == lower(text) = Quit

\* chess.Move.from_uci(opp_move) returns instead of raising ValueError
from_uci_ok(text) ==
    \/ text = <<"0", "0", "0", "0">>
    \/ /\ Len(text) \in {4, 5}
       /\ text[1] \in Files /\ text[2] \in Ranks
       /\ text[3] \in Files /\ text[4] \in Ranks
       /\ <<text[1], text[2]>> # <<text[3], text[4]>>
       /\ (Len(text) = 5 => text[5] \in {"p", "n", "b", "r", "q", "k"})

\* The null move is never in board.legal_moves.
can_be_legal(text) == from_uci_ok(text) /\ text # <<"0", "0", "0", "0">>

\* lines 332-333 with the legality test left out
accepts_move_unchecked(text, legal) == from_uci_ok(text)

\* lines 331-333 / 357-359: the text parses and the move is legal
accepts_move(text, legal) == from_uci_ok(text) /\ legal

-----------------------------------------------------------------------------
(* The rules collaborator *)

\* board.fullmove_number
fullmove_number(b) == 1 + (b.plies \div 2)

\* board.is_game_over()
is_game_over(b) == b.over # "none"

\* What the rules library can report about the position after the push that
\* makes it the p-th ply: legal-move count and game-over kind.  After the
\* first ply the side to move has 20 legal moves; no checkmate comes before
\* ply 4 and no fivefold repetition before ply 16; stalemate and insufficient
\* material need more plies than MaxPlies allows.
Positions(p) ==
    IF p = 1
    THEN { [plies |-> p, legal_moves |-> 20, over |-> "none"] }
    ELSE { [plies |-> p, legal_moves |-> 10, over |-> "none"],
           [plies |-> p, legal_moves |-> 38, over |-> "none"] }
         \cup (IF p >= 4
               THEN {[plies |-> p, legal_moves |-> 0, over |-> "checkmate"]}
               ELSE {})
         \cup (IF p >= 16
               THEN {[plies |-> p, legal_moves |-> 20, over |-> "fivefold"]}
               ELSE {})

-----------------------------------------------------------------------------
(* Time management, lines 35-93 *)

\* update_clock, lines 43-46: the two counters after the tick
charged(is_engine_move, elapsed, engine_t, opp_t) ==
    IF is_engine_move
    THEN [engine |-> engine_t, opponent |-> opp_t - elapsed]
    ELSE [engine |-> engine_t - elapsed, opponent |-> opp_t]

\* get_time_pressure, lines 50-61, in thousandths
get_time_pressure(time_remaining, move_number) ==
    LET time_per_move   == GAME_DURATION \div expected_moves
        moves_remaining == expected_moves - move_number
    IN  IF moves_remaining <= 0
        THEN 1000
        ELSE LET ratio == (time_remaining * 1000)
                             \div (moves_remaining * time_per_move)
             IN  Min(1000, Max(0, 1000 - ratio))

\* random.uniform(a, b) landing r per mille of the way from a to b
uniform(a, b, r) == a + ((b - a) * r) \div 1000

\* lines 89-91 without the cap
capped_not(base_time, time_remaining) == base_time

\* lines 89-91: don't use more than 10% of remaining time
capped(base_time, time_remaining) == Min(base_time, time_remaining \div 10)

\* adaptive_thinking_time, lines 63-93; r1, r2 are the two random draws
adaptive_thinking_time(move_number, time_remaining, pressure, r1, r2) ==
    LET time_pressure == get_time_pressure(time_remaining, move_number)
        base0 == IF pressure < 300000 THEN uniform(2000, 4000, r1)
                 ELSE IF pressure < 700000 THEN uniform(3000, 6000, r1)
                 ELSE uniform(1500, 3500, r1)
        base1 == IF time_pressure > 500
                 THEN (base0 * (10000 - 6 * time_pressure)) \div 10000
                 ELSE base0
        base2 == IF time_remaining < 60000 THEN uniform(500, 2000, r2)
                 ELSE IF time_remaining < 180000 THEN uniform(1000, 3000, r2)
                 ELSE base1
        base3 == Max(300, base2)
    IN  capped(base3, time_remaining)

-----------------------------------------------------------------------------
(* Liquid pressure core, lines 105-124 *)

\* line 108 without the cap
momentum_uncapped(m) == m + 6

\* line 108
momentum_after(m) == Min(100, m + 6)

\* lines 119-124 with the thresholds of adaptive_thinking_time (0.3, 0.7)
phase_of_wrong(p) ==
    IF p < 300000 THEN "calm_flow"
    ELSE IF p < 700000 THEN "building_waves"
    ELSE "crushing_tide"

\* lines 119-124
phase_of(p) ==
    IF p < 400000 THEN "calm_flow"
    ELSE IF p < 800000 THEN "building_waves"
    ELSE "crushing_tide"

\* update_liquid_momentum(board, move_uci, time_used), lines 105-124
update_liquid_momentum(style, b, time_used) ==
    LET m == momentum_after(style.flow_momentum)
        position_complexity == b.legal_moves * 15000        \* 0.3 * n / 20
        time_efficiency     == Min(100000, 20 * time_used)  \* 0.1 * min(1, t/5)
        p == m * 6000 + position_complexity + time_efficiency
    IN  [pressure |-> p, flow_momentum |-> m, phase |-> phase_of(p)]

-----------------------------------------------------------------------------
(* Initial state, lines 14-32 *)

Init ==
    /\ player_is_white \in BOOLEAN
    /\ board = [plies |-> 0, legal_moves |-> 20, over |-> "none"]
    /\ sf = [plies |-> 0]
    /\ engine_time_remaining = GAME_DURATION
    /\ opponent_time_remaining = GAME_DURATION
    /\ last_move_time = 0
    /\ now = 0
    /\ LIQUID_STYLE = [pressure |-> 0, flow_momentum |-> 0, phase |-> "calm_flow"]
    /\ thinking_time = 0
    /\ opp_move = <<>>
    /\ move_legal = FALSE
    /\ reads = 0
    /\ outcome = "none"
    /\ pc = "while"

-----------------------------------------------------------------------------
(* Main game loop, lines 298-386 *)

\* lines 300 / 345: the while condition
WhileCheck ==
    /\ pc = "while"
    /\ pc' = IF /\ ~is_game_over(board)
                /\ engine_time_remaining > 0
                /\ opponent_time_remaining > 0
             THEN (IF player_is_white THEN "engine" ELSE "prompt")
             ELSE "report"
    /\ UNCHANGED <<player_is_white, board, sf, engine_time_remaining,
                   opponent_time_remaining, last_move_time, now, LIQUID_STYLE,
                   thinking_time, opp_move, move_legal, reads, outcome>>

\* lines 307-317 / 373-383: the selector returned a move
EngineMove(r1, r2, ovh, pos) ==
    LET t == adaptive_thinking_time(fullmove_number(board),
                                    engine_time_remaining,
                                    LIQUID_STYLE.pressure, r1, r2)
        current_time == now + t + ovh
        elapsed == current_time - last_move_time
        c == charged(TRUE, elapsed, engine_time_remaining,
                     opponent_time_remaining)
    IN  /\ pc = "engine"
        /\ board.plies < MaxPlies
        /\ t >= 0
        /\ thinking_time' = t
        /\ now' = current_time
        /\ last_move_time' = current_time
        /\ engine_time_remaining' = c.engine
        /\ opponent_time_remaining' = c.opponent
        /\ board' = pos
        /\ sf' = [plies |-> sf.plies + 1]
        /\ LIQUID_STYLE' = update_liquid_momentum(LIQUID_STYLE, pos, t)
        /\ pc' = IF player_is_white THEN "engine_check" ELSE "while"
        /\ UNCHANGED <<player_is_white, opp_move, move_legal, reads, outcome>>

\* lines 309-312 / 375-378: time.sleep raises ValueError on a negative delay
EngineSleepFails(r1, r2) ==
    LET t == adaptive_thinking_time(fullmove_number(board),
                                    engine_time_remaining,
                                    LIQUID_STYLE.pressure, r1, r2)
    IN  /\ pc = "engine"
        /\ board.plies < MaxPlies
        /\ t < 0
        /\ thinking_time' = t
        /\ pc' = "crashed"
        /\ UNCHANGED <<player_is_white, board, sf, engine_time_remaining,
                       opponent_time_remaining, last_move_time, now,
                       LIQUID_STYLE, opp_move, move_legal, reads, outcome>>

\* lines 318-320 / 384-386: the selector returned None
EngineNoMove ==
    /\ pc = "engine"
    /\ pc' = "report"
    /\ UNCHANGED <<player_is_white, board, sf, engine_time_remaining,
                   opponent_time_remaining, last_move_time, now, LIQUID_STYLE,
                   thinking_time, opp_move, move_legal, reads, outcome>>

\* lines 322-323
EngineCheck ==
    /\ pc = "engine_check"
    /\ pc' = IF is_game_over(board) \/ engine_time_remaining <= 0
             THEN "report" ELSE "prompt"
    /\ UNCHANGED <<player_is_white, board, sf, engine_time_remaining,
                   opponent_time_remaining, last_move_time, now, LIQUID_STYLE,
                   thinking_time, opp_move, move_legal, reads, outcome>>

\* lines 327-329 / 353-355: the quit keyword
OppQuit(text, d) ==
    /\ pc = "prompt"
    /\ reads < MaxReads + 1
    /\ is_quit(strip(text))
    /\ now' = now + d
    /\ opp_move' = strip(text)
    /\ reads' = reads + 1
    /\ pc' = "exited"
    /\ UNCHANGED <<player_is_white, board, sf, engine_time_remaining,
                   opponent_time_remaining, last_move_time, LIQUID_STYLE,
                   thinking_time, move_legal, outcome>>

\* lines 338-341 / 364-367: malformed text or an illegal move
OppReject(text, legal, d) ==
    /\ pc = "prompt"
    /\ reads < MaxReads
    /\ ~is_quit(strip(text))
    /\ legal => can_be_legal(strip(text))
    /\ ~accepts_move(strip(text), legal)
    /\ now' = now + d
    /\ opp_move' = strip(text)
    /\ move_legal' = legal
    /\ reads' = reads + 1
    /\ UNCHANGED <<player_is_white, board, sf, engine_time_remaining,
                   opponent_time_remaining, last_move_time, LIQUID_STYLE,
                   thinking_time, outcome, pc>>

\* lines 332-337 / 358-363: a legal move
OppAccept(text, legal, d, pos) ==
    LET current_time == now + d
        elapsed == current_time - last_move_time
        c == charged(FALSE, elapsed, engine_time_remaining,
                     opponent_time_remaining)
    IN  /\ pc = "prompt"
        /\ reads < MaxReads + 1
        /\ board.plies < MaxPlies
        /\ ~is_quit(strip(text))
        /\ legal => can_be_legal(strip(text))
        /\ accepts_move(strip(text), legal)
        /\ now' = current_time
        /\ last_move_time' = current_time
        /\ opp_move' = strip(text)
        /\ move_legal' = legal
        /\ reads' = 0
        /\ engine_time_remaining' = c.engine
        /\ opponent_time_remaining' = c.opponent
        /\ board' = pos
        /\ sf' = [plies |-> sf.plies + 1]
        /\ LIQUID_STYLE' = update_liquid_momentum(LIQUID_STYLE, pos, 0)
        /\ pc' = IF player_is_white THEN "while" ELSE "opp_check"
        /\ UNCHANGED <<player_is_white, thinking_time, outcome>>

\* lines 369-370
OppCheck ==
    /\ pc = "opp_check"
    /\ pc' = IF is_game_over(board) \/ opponent_time_remaining <= 0
             THEN "report" ELSE "engine"
    /\ UNCHANGED <<player_is_white, board, sf, engine_time_remaining,
                   opponent_time_remaining, last_move_time, now, LIQUID_STYLE,
                   thinking_time, opp_move, move_legal, reads, outcome>>

\* lines 393-409: which message is printed
message ==
    IF engine_time_remaining <= 0 THEN "engine_out_of_time"
    ELSE IF opponent_time_remaining <= 0 THEN "opponent_out_of_time"
    ELSE IF board.over = "checkmate"
         THEN (IF LIQUID_STYLE.pressure > 700000
               THEN "checkmate_crushing" ELSE "checkmate_flowing")
    ELSE IF board.over = "stalemate" THEN "stalemate"
    ELSE IF board.over = "insufficient" THEN "insufficient_material"
    ELSE "game_ended"

\* lines 388-411
Report ==
    /\ pc = "report"
    /\ outcome' = message
    /\ pc' = "done"
    /\ UNCHANGED <<player_is_white, board, sf, engine_time_remaining,
                   opponent_time_remaining, last_move_time, now, LIQUID_STYLE,
                   thinking_time, opp_move, move_legal, reads>>

Next ==
    \/ WhileCheck
    \/ \E r1 \in RandFracs, r2 \in RandFracs, ovh \in Overheads,
          pos \in Positions(board.plies + 1) : EngineMove(r1, r2, ovh, pos)
    \/ \E r1 \in RandFracs, r2 \in RandFracs : EngineSleepFails(r1, r2)
    \/ EngineNoMove
    \/ EngineCheck
    \/ \E text \in InputTexts, d \in InputDelays : OppQuit(text, d)
    \/ \E text \in InputTexts, legal \in BOOLEAN, d \in InputDelays :
          OppReject(text, legal, d)
    \/ \E text \in InputTexts, legal \in BOOLEAN, d \in InputDelays,
          pos \in Positions(board.plies + 1) : OppAccept(text, legal, d, pos)
    \/ OppCheck
    \/ Report

Spec == Init /\ [][Next]_vars

-----------------------------------------------------------------------------
(* The thinking-time model on its own: adaptive_thinking_time applied to    *)
(* inputs drawn from bounded sets.                                          *)

\* Remaining times (ms) the function is applied to; those of 3 s and below
\* lie outside the stated range of the bound on the result.
ThinkRemaining == {1000, 3000, 3001, 4000, 5000, 29999, 59999, 60000, 100000,
                   179999, 180000, 250000, 292000, 400000, 600000}

ThinkPressures == {0, 299999, 300000, 699999, 700000, 1000000, 1300000}

ThinkPlies == {0, 1, 20, 40, 77, 78, 90}

ThinkFracs == {0, 500, 1000}

InitThink ==
    /\ player_is_white \in BOOLEAN
    /\ board \in {[plies |-> k, legal_moves |-> 20, over |-> "none"] :
                    k \in ThinkPlies}
    /\ sf = [plies |-> board.plies]
    /\ engine_time_remaining \in ThinkRemaining
    /\ opponent_time_remaining = GAME_DURATION
    /\ last_move_time = 0
    /\ now = 0
    /\ LIQUID_STYLE \in {[pressure |-> p, flow_momentum |-> 0,
                          phase |-> phase_of(p)] : p \in ThinkPressures}
    /\ thinking_time = 0
    /\ opp_move = <<>>
    /\ move_legal = FALSE
    /\ reads = 0
    /\ outcome = "none"
    /\ pc = "think"

\* lines 309 / 375: thinking_time = adaptive_thinking_time(...)
Think(r1, r2) ==
    /\ pc = "think"
    /\ thinking_time' = adaptive_thinking_time(fullmove_number(board),
                                               engine_time_remaining,
                                               LIQUID_STYLE.pressure, r1, r2)
    /\ pc' = "thought"
    /\ UNCHANGED <<player_is_white, board, sf, engine_time_remaining,
                   opponent_time_remaining, last_move_time, now, LIQUID_STYLE,
                   opp_move, move_legal, reads, outcome>>

NextThink == \E r1 \in ThinkFracs, r2 \in ThinkFracs : Think(r1, r2)

SpecThink == InitThink /\ [][NextThink]_vars

-----------------------------------------------------------------------------
(* Properties *)

\* A step that pushes a move onto the board.
IsPly == board'.plies = board.plies + 1

\* C1: the tick made when the engine moves subtracts the elapsed time from
\* the engine's counter and leaves the opponent's alone; the tick made when
\* the opponent moves subtracts it from the opponent's counter and leaves
\* the engine's alone.
TickChargesMover ==
    [][IsPly =>
         LET elapsed == last_move_time' - last_move_time
         IN  IF pc = "engine"
             THEN /\ engine_time_remaining' = engine_time_remaining - elapsed
                  /\ opponent_time_remaining' = opponent_time_remaining
             ELSE /\ opponent_time_remaining' = opponent_time_remaining - elapsed
                  /\ engine_time_remaining' = engine_time_remaining]_vars

\* C2: a move is selected or prompted for only when the game is not over and
\* both counters are above zero, whichever side moved last.
TerminalCheckedAfterEveryPly ==
    pc \in {"engine", "prompt"} =>
        /\ ~is_game_over(board)
        /\ engine_time_remaining > 0
        /\ opponent_time_remaining > 0

PressureInUnitInterval ==
    /\ LIQUID_STYLE.pressure >= 0
    /\ LIQUID_STYLE.pressure <= 1000000

\* C5: phase is the discretization of the stored pressure at 0.4 and 0.8,
\* the boundaries belonging to the upper phase.
PhaseDiscretizesPressure ==
    LET p == LIQUID_STYLE.pressure
    IN  /\ p < 400000 => LIQUID_STYLE.phase = "calm_flow"
        /\ (p >= 400000 /\ p < 800000) => LIQUID_STYLE.phase = "building_waves"
        /\ p >= 800000 => LIQUID_STYLE.phase = "crushing_tide"

\* C5 witness: an engine move has left the pressure exactly on the 0.8
\* boundary, in the crushing phase.
PressureOnCrushingBoundary ==
    /\ board.plies > 0
    /\ LIQUID_STYLE.pressure = 800000
    /\ LIQUID_STYLE.phase = "crushing_tide"

\* A move has left the pressure exactly on the 0.4 boundary, in the building
\* phase.
PressureOnBuildingBoundary ==
    /\ board.plies > 0
    /\ LIQUID_STYLE.pressure = 400000
    /\ LIQUID_STYLE.phase = "building_waves"

\* C6: a run that has ended with the engine's counter at zero or below has
\* ended in the game-over report with the engine's out-of-time message.
SelfTimeoutIsReported ==
    (pc \in {"done", "crashed", "exited"} /\ engine_time_remaining <= 0) =>
        (pc = "done" /\ outcome = "engine_out_of_time")

\* C7: reading an input that is not the quit keyword and is malformed or not
\* legal changes nothing of the game state and leaves the program at the
\* opponent prompt.
RejectedInputChangesNothing ==
    [][(/\ pc = "prompt"
        /\ lower(opp_move') # Quit
        /\ ~(from_uci_ok(opp_move') /\ move_legal'))
       => (pc' = "prompt" /\ UNCHANGED game)]_vars

\* C7 witness: a malformed input was rejected in mid-game and the prompt is
\* up again.
RejectedAndPromptedAgain ==
    /\ pc = "prompt"
    /\ reads >= 1
    /\ board.plies >= 2
    /\ opp_move = <<"E", "2", "E", "4">>

\* C8: reading the quit keyword, in any letter case, ends the process at once
\* with the game state untouched.
QuitTerminatesImmediately ==
    [][(pc = "prompt" /\ lower(opp_move') = Quit)
       => (pc' = "exited" /\ UNCHANGED game)]_vars

\* C8 witness: the process has exited on a capitalised quit typed after a
\* rejected input.
QuitAfterRejectedInput ==
    /\ pc = "exited"
    /\ reads >= 2
    /\ board.plies >= 1
    /\ opp_move = <<"Q", "u", "i", "t">>

\* C9: for a remaining time above 3 s the thinking time is at least 0.3 s
\* and at most a tenth of the remaining time.
ThinkingTimeWithinBounds ==
    (pc = "thought" /\ engine_time_remaining > 3000) =>
        /\ thinking_time >= 300
        /\ 10 * thinking_time <= engine_time_remaining

\* C9 witness: with just over 3 s left the result sits on both bounds.
ThinkingTimeOnBothBounds ==
    /\ pc = "thought"
    /\ engine_time_remaining = 3001
    /\ thinking_time = 300

\* C10: the engine's move is selected only with the engine's counter above
\* zero, the delay handed to time.sleep is never negative and the loop never
\* fails there.
SelfMoveOnlyWithTimeLeft ==
    /\ pc = "engine" => engine_time_remaining > 0
    /\ thinking_time >= 0
    /\ pc # "crashed"

====
